---- MODULE Spec2Model ----
(***************************************************************************)
(* Model of BABYLON.CubeTexture (src/Materials/Textures/                   *)
(* babylon.cubeTexture.ts): construction, face-list resolution, cache      *)
(* lookup, immediate and delayed loading, the boundingBoxSize and          *)
(* rotationY setters, the reflection matrix, clone and Parse.              *)
(*                                                                         *)
(* Strings are sequences of one-character strings, so that lastIndexOf,    *)
(* substring, toLowerCase and concatenation are computed as the code       *)
(* computes them.  The engine (texture cache, loaders, load completion)    *)
(* and the Tools.SetImmediate queue are collaborators of the class.        *)
(***************************************************************************)
EXTENDS Integers, Sequences, FiniteSets

VARIABLES
    textures,                   \* the CubeTexture objects, in creation order
    cache,                      \* engine: the loaded-textures cache (InternalTexture records)
    loadCalls,                  \* engine: every loader call issued, in order
    immediate,                  \* Tools.SetImmediate: queued callbacks (owner texture ids)
    onLoadCalls,                \* per texture: invocations of the onLoad given to its constructor
    onErrorCalls,               \* per texture: invocations of the onError given to its constructor
    useDelayedTextureLoading,   \* scene.useDelayedTextureLoading
    dirtyCount,                 \* scene.markAllMaterialsAsDirty calls
    lastOp                      \* the CubeTexture call made last

vars == <<textures, cache, loadCalls, immediate, onLoadCalls, onErrorCalls,
          useDelayedTextureLoading, dirtyCount, lastOp>>

----------------------------------------------------------------------------
(* Bounds *)

MaxDesc == 2
MaxResolve == 1
MaxBox == 1
MaxDirty == 4
MaxTurn == 1
MaxCopy == 2
MaxScene == 2

----------------------------------------------------------------------------
(* Values *)

NullStr == <<"null">>
NullList == <<NullStr>>
NullVec == <<>>

S_a == <<"a">>
S_a_dds == <<"a", ".", "d", "d", "s">>
S_a_DDS == <<"a", ".", "D", "D", "S">>
S_a_env == <<"a", ".", "e", "n", "v">>
S_b_png == <<"a", ".", "b", ".", "p", "n", "g">>
E_dds == <<".", "d", "d", "s">>
E_env == <<".", "e", "n", "v">>
E_png == <<".", "p", "n", "g">>

DefaultExtensions ==
    << <<"_", "p", "x", ".", "j", "p", "g">>, <<"_", "p", "y", ".", "j", "p", "g">>,
       <<"_", "p", "z", ".", "j", "p", "g">>, <<"_", "n", "x", ".", "j", "p", "g">>,
       <<"_", "n", "y", ".", "j", "p", "g">>, <<"_", "n", "z", ".", "j", "p", "g">> >>

UserExtensions2 == << <<"_", "r">>, <<"_", "l">> >>
UserExtensions6 ==
    << <<"0">>, <<"1">>, <<"2">>, <<"3">>, <<"4">>, <<"5">> >>
UserFiles6 ==
    << <<"r">>, <<"u">>, <<"f">>, <<"l">>, <<"d">>, <<"k", ".", "D", "D", "S">> >>
UserFiles2 == << <<"p">>, <<"q", ".", "e", "n", "v">> >>

\* Matrix.Identity(), as the 16 entries m[0..15] in the order Matrix stores them.
Identity == <<1, 0, 0, 0,  0, 1, 0, 0,  0, 0, 1, 0,  0, 0, 0, 1>>

\* Vector3.Zero()
Zero == <<0, 0, 0>>

ToLowerCase(c) ==
    CASE c = "D" -> "d"
      [] c = "S" -> "s"
      [] c = "E" -> "e"
      [] c = "N" -> "n"
      [] c = "V" -> "v"
      [] OTHER -> c

LowerCased(s) == [i \in 1..Len(s) |-> ToLowerCase(s[i])]

\* String.lastIndexOf, 1-based: 0 when the character does not occur.
LastIndexOf(s, c) ==
    LET hits == {i \in 1..Len(s) : s[i] = c}
    IN IF hits = {} THEN 0 ELSE CHOOSE i \in hits : \A j \in hits : j <= i

RECURSIVE Concat(_)
Concat(list) ==
    IF list = <<>> THEN <<>> ELSE Head(list) \o Concat(Tail(list))

----------------------------------------------------------------------------
(* Format resolution, lines 119-139 *)

ResolveExtension(rootUrl, forcedExtension) ==
    LET lastDot == LastIndexOf(rootUrl, ".")
    IN IF forcedExtension # NullStr
       THEN forcedExtension
       ELSE IF lastDot > 0
            THEN LowerCased(SubSeq(rootUrl, lastDot, Len(rootUrl)))
            ELSE <<>>

IsDDS(extension) == extension = E_dds
IsEnv(extension) == extension = E_env

\* Mutant: the default suffixes are used without looking at the source class.
ResolveFiles_AnyClass(rootUrl, extensions, files, isDDS, isEnv) ==
    IF files # NullList
    THEN files
    ELSE LET exts == IF extensions = NullList THEN DefaultExtensions ELSE extensions
         IN [index \in 1..Len(exts) |-> rootUrl \o exts[index]]

\* Mutant: the faces are pushed in the reverse of the suffix order.
ResolveFiles_Reversed(rootUrl, extensions, files, isDDS, isEnv) ==
    IF files # NullList
    THEN files
    ELSE LET exts == IF ~isEnv /\ ~isDDS /\ extensions = NullList
                     THEN DefaultExtensions
                     ELSE extensions
         IN IF exts # NullList
            THEN [index \in 1..Len(exts) |-> rootUrl \o exts[Len(exts) + 1 - index]]
            ELSE <<>>

ResolveFiles(rootUrl, extensions, files, isDDS, isEnv) ==
    IF files # NullList
    THEN files
    ELSE LET exts == IF ~isEnv /\ ~isDDS /\ extensions = NullList
                     THEN DefaultExtensions
                     ELSE extensions
         IN IF exts # NullList
            THEN [index \in 1..Len(exts) |-> rootUrl \o exts[index]]
            ELSE <<>>

----------------------------------------------------------------------------
(* Engine: texture cache and loaders (collaborators of the class) *)

\* BaseTexture._getFromCache: the first cache entry with this url and mip
\* policy, 0 when there is none.
GetFromCache(url, noMipmap) ==
    LET hits == {h \in 1..Len(cache) :
                    cache[h].url = url /\ cache[h].generateMipMaps = ~noMipmap}
    IN IF hits = {} THEN 0 ELSE CHOOSE h \in hits : \A g \in hits : h <= g

\* An InternalTexture as the loader leaves it in the cache: not ready, and
\* holding the callbacks the loader was given (0: none, d: those of texture d).
InternalTexture(url, generateMipMaps, onLoad, onError) ==
    [url |-> url, generateMipMaps |-> generateMipMaps, isReady |-> FALSE,
     failed |-> FALSE, onLoadedObservable |-> <<>>,
     onLoad |-> onLoad, onError |-> onError]

\* Engine.createCubeTexture(rootUrl, scene, files, noMipmap, onLoad, onError, ...)
CreateCubeTexture(rootUrl, noMipmap, onLoad, onError) ==
    Append(cache, InternalTexture(rootUrl, ~noMipmap, onLoad, onError))

\* Engine.createPrefilteredCubeTexture(rootUrl, scene, lodScale, lodOffset,
\* onLoad, onError, ...): the caller passes no mip policy; prefiltered data
\* carries its mip chain, so the resource is registered with mipmaps.
CreatePrefilteredCubeTexture(rootUrl, onLoad, onError) ==
    Append(cache, InternalTexture(rootUrl, TRUE, onLoad, onError))

\* The record of one loader call.
LoadCall(fn, d, from, rootUrl, files, noMipmap, onLoad, onError, forcedExtension) ==
    [fn |-> fn, by |-> d, from |-> from, url |-> rootUrl, files |-> files,
     key |-> <<rootUrl, noMipmap>>, onLoad |-> onLoad, onError |-> onError,
     forcedExtension |-> forcedExtension]

----------------------------------------------------------------------------
(* CubeTexture.constructor, lines 95-164 *)

\* The call being made, and whether the call before it was the same call.
Call(op, d, arg) ==
    [op |-> op, d |-> d, arg |-> arg,
     rep |-> lastOp.op = op /\ lastOp.d = d /\ lastOp.arg = arg]

\* Line 113: neither a root url nor a file list.
CtorIsInert(rootUrl, files) == rootUrl = <<>> /\ files = NullList

\* Mutant: the constructor goes on without a root url and a file list.
CtorGoesOn_Always(rootUrl, files) == TRUE

\* Line 113, negated: the constructor does not return early.
CtorGoesOn(rootUrl, files) == ~CtorIsInert(rootUrl, files)

\* Mutant: the cache lookup is ignored.
CtorCacheMiss_Always(cached) == TRUE

\* Line 141: the cache lookup of line 117 found nothing.
CtorCacheMiss(cached) == cached = 0

\* Mutant: scene.useDelayedTextureLoading is ignored.
CtorLoadsNow_Always(delayed) == TRUE

\* Line 147: on a miss the constructor loads now unless the scene delays loading.
CtorLoadsNow(delayed) == ~delayed

\* Lines 143-148: the local prefiltered, downgraded unless the source is DDS.
CtorUsesPrefilteredLoader(prefiltered, isDDS) ==
    IF ~isDDS THEN FALSE ELSE prefiltered

\* Mutant: onLoad is queued without looking at isReady.
CtorHitPath_AlwaysQueued(cached, onLoad) ==
    IF ~onLoad THEN "hit" ELSE "hitQueued"

\* Lines 157-162: what happens to onLoad on a cache hit.
CtorHitPath(cached, onLoad) ==
    IF ~onLoad THEN "hit"
    ELSE IF cache[cached].isReady THEN "hitQueued" ELSE "hitRegistered"

\* What `new CubeTexture(...)` leaves behind as texture d: the object, the
\* cache, the loader calls and the scheduler queue.
CtorResult(d, rootUrl, sceneGiven, extensions, noMipmap, files, onLoad, onError, format, prefiltered, forcedExtension, createPolynomials) ==
    LET base == [name |-> rootUrl, url |-> rootUrl, _noMipmap |-> noMipmap,
                 hasAlpha |-> FALSE, _format |-> format,
                 _prefiltered |-> prefiltered,
                 isCube |-> TRUE, _createPolynomials |-> createPolynomials,
                 gammaSpace |-> ~prefiltered, hasScene |-> sceneGiven,
                 _texture |-> 0, _files |-> NullList, _extensions |-> NullList,
                 delayLoadState |-> "NONE", _boundingBoxSize |-> NullVec,
                 boundingBoxPosition |-> Zero, _rotationY |-> 0,
                 _textureMatrix |-> Identity,
                 origin |-> [kind |-> "new", of |-> 0, rootUrl |-> <<>>],
                 delaySkipped |-> FALSE,
                 extension |-> NullStr, onLoad |-> onLoad, onError |-> onError,
                 args |-> [extensions |-> extensions, files |-> files,
                           prefiltered |-> prefiltered,
                           forcedExtension |-> forcedExtension],
                 ctorPath |-> "inert"]
        cached == GetFromCache(rootUrl, noMipmap)
        extension == ResolveExtension(rootUrl, forcedExtension)
        isDDS == IsDDS(extension)
        isEnv == IsEnv(extension)
        resolved == ResolveFiles(rootUrl, extensions, files, isDDS, isEnv)
        usePrefiltered == CtorUsesPrefilteredLoader(prefiltered, isDDS)
        cbLoad == IF onLoad THEN d ELSE 0
        cbError == IF onError THEN d ELSE 0
        live == [base EXCEPT !._files = resolved, !.extension = extension]
        same == [texture |-> base, cache |-> cache, loadCalls |-> loadCalls,
                 immediate |-> immediate]
    IN IF ~CtorGoesOn(rootUrl, files)
       THEN same
       ELSE IF CtorCacheMiss(cached)
       THEN IF CtorLoadsNow(useDelayedTextureLoading)
            THEN [texture |-> [live EXCEPT !._texture = Len(cache) + 1,
                                           !.ctorPath = "load"],
                  cache |-> IF usePrefiltered
                            THEN CreatePrefilteredCubeTexture(rootUrl, cbLoad, cbError)
                            ELSE CreateCubeTexture(rootUrl, noMipmap, cbLoad, cbError),
                  loadCalls |-> Append(loadCalls,
                      IF usePrefiltered
                      THEN LoadCall("createPrefilteredCubeTexture", d, "constructor",
                                    rootUrl, NullList, noMipmap, onLoad, onError,
                                    forcedExtension)
                      ELSE LoadCall("createCubeTexture", d, "constructor",
                                    rootUrl, resolved, noMipmap, onLoad, onError,
                                    forcedExtension)),
                  immediate |-> immediate]
            ELSE [same EXCEPT !.texture = [live EXCEPT !.delayLoadState = "NOTLOADED",
                                                       !.ctorPath = "delayed"]]
       ELSE LET path == CtorHitPath(cached, onLoad)
            IN [texture |-> [live EXCEPT !._texture = cached, !.ctorPath = path],
                cache |-> IF path = "hitRegistered"
                          THEN [cache EXCEPT ![cached].onLoadedObservable = Append(@, d)]
                          ELSE cache,
                loadCalls |-> loadCalls,
                immediate |-> IF path = "hitQueued"
                              THEN Append(immediate, d) ELSE immediate]

Constructor(rootUrl, sceneGiven, extensions, noMipmap, files, onLoad, onError, format, prefiltered, forcedExtension, createPolynomials) ==
    LET d == Len(textures) + 1
        r == CtorResult(d, rootUrl, sceneGiven, extensions, noMipmap, files, onLoad, onError, format, prefiltered, forcedExtension, createPolynomials)
    IN /\ sceneGiven \/ CtorIsInert(rootUrl, files)
       /\ textures' = Append(textures, r.texture)
       /\ cache' = r.cache
       /\ loadCalls' = r.loadCalls
       /\ immediate' = r.immediate
       /\ onLoadCalls' = Append(onLoadCalls, 0)
       /\ onErrorCalls' = Append(onErrorCalls, 0)
       /\ lastOp' = Call("constructor", d, <<useDelayedTextureLoading>>)
       /\ UNCHANGED <<useDelayedTextureLoading, dirtyCount>>

\* CubeTexture.CreateFromImages, lines 59-65
CreateFromImages(files, noMipmap) ==
    Constructor(Concat(files), TRUE, NullList, noMipmap, files, FALSE, FALSE,
                "RGBA", FALSE, NullStr, FALSE)

\* CubeTexture.CreateFromPrefilteredData, lines 75-77
CreateFromPrefilteredData(url, forcedExtension, createPolynomials) ==
    Constructor(url, TRUE, NullList, FALSE, NullList, FALSE, FALSE,
                "RGBA", TRUE, forcedExtension, createPolynomials)

----------------------------------------------------------------------------
(* CubeTexture.delayLoad, lines 167-188 *)

\* Line 168: only a texture left pending by its constructor is loaded.
DelayLoadIsPending(t) == t.delayLoadState = "NOTLOADED"

\* Mutant: the lookup result is used even when it is null.
DelayLoadCacheMiss_Never(cached) == FALSE

\* Mutant: the second cache lookup is ignored.
DelayLoadCacheMiss_Always(cached) == TRUE

\* Line 180: the second cache lookup (line 178) found nothing.
DelayLoadCacheMiss(cached) == cached = 0

\* Mutant: delayLoad goes on without a scene.
DelayLoadHasScene_Always(t) == TRUE

\* Lines 172-176: getScene() is not null.
DelayLoadHasScene(t) == t.hasScene

\* Mutant: the callbacks given to the constructor are handed to the loader.
DelayLoadCallback_Replayed(given, d) == IF given THEN d ELSE 0

\* Lines 182 and 185: onLoad and onError are passed as undefined.
DelayLoadCallback(given, d) == 0

\* Line 181: the loader is chosen by the stored flag.
DelayLoadUsesPrefilteredLoader(t) == t._prefiltered

DelayLoad(d) ==
    LET t == textures[d]
        cached == GetFromCache(t.url, t._noMipmap)
        cbLoad == DelayLoadCallback(t.onLoad, d)
        cbError == DelayLoadCallback(t.onError, d)
    IN /\ lastOp' = Call("delayLoad", d, <<>>)
       /\ UNCHANGED <<immediate, onLoadCalls, onErrorCalls,
                      useDelayedTextureLoading, dirtyCount>>
       /\ IF ~DelayLoadIsPending(t)
          THEN UNCHANGED <<textures, cache, loadCalls>>
          ELSE IF ~DelayLoadHasScene(t)
          THEN /\ textures' = [textures EXCEPT ![d].delaySkipped = TRUE]
               /\ UNCHANGED <<cache, loadCalls>>
          ELSE IF DelayLoadCacheMiss(cached)
          THEN /\ textures' = [textures EXCEPT ![d].delayLoadState = "LOADED",
                                               ![d]._texture = Len(cache) + 1]
               /\ IF DelayLoadUsesPrefilteredLoader(t)
                  THEN /\ cache' = CreatePrefilteredCubeTexture(t.url, cbLoad, cbError)
                       /\ loadCalls' = Append(loadCalls,
                              LoadCall("createPrefilteredCubeTexture", d, "delayLoad",
                                       t.url, NullList, t._noMipmap, cbLoad # 0,
                                       cbError # 0, NullStr))
                  ELSE /\ cache' = CreateCubeTexture(t.url, t._noMipmap, cbLoad, cbError)
                       /\ loadCalls' = Append(loadCalls,
                              LoadCall("createCubeTexture", d, "delayLoad",
                                       t.url, t._files, t._noMipmap, cbLoad # 0,
                                       cbError # 0, NullStr))
          ELSE /\ textures' = [textures EXCEPT ![d].delayLoadState = "LOADED",
                                               ![d]._texture = cached]
               /\ UNCHANGED <<cache, loadCalls>>

----------------------------------------------------------------------------
(* CubeTexture.boundingBoxSize setter, lines 20-29 *)

\* Vector3.equals: component-wise.
Vector3Equals(a, b) == a[1] = b[1] /\ a[2] = b[2] /\ a[3] = b[3]

\* Mutant: the setter never returns early.
BoundingBoxSizeUnchanged_Never(current, value) == FALSE

\* Line 21: the guard that makes the setter return early.
BoundingBoxSizeUnchanged(current, value) ==
    current # NullVec /\ Vector3Equals(current, value)

SetBoundingBoxSize(d, value) ==
    LET t == textures[d]
    IN /\ dirtyCount < MaxDirty
       /\ lastOp' = Call("boundingBoxSize", d, value)
       /\ UNCHANGED <<cache, loadCalls, immediate, onLoadCalls, onErrorCalls,
                      useDelayedTextureLoading>>
       /\ IF BoundingBoxSizeUnchanged(t._boundingBoxSize, value)
          THEN UNCHANGED <<textures, dirtyCount>>
          ELSE /\ textures' = [textures EXCEPT ![d]._boundingBoxSize = value]
               /\ dirtyCount' = IF t.hasScene THEN dirtyCount + 1 ELSE dirtyCount

----------------------------------------------------------------------------
(* rotationY setter, lines 40-43; reflection texture matrix, lines 190-196 *)

\* Angles count quarter turns, so that the cosine and the sine are integers.
Cos(angle) == CASE angle % 4 = 0 -> 1 [] angle % 4 = 1 -> 0
                [] angle % 4 = 2 -> -1 [] OTHER -> 0
Sin(angle) == CASE angle % 4 = 0 -> 0 [] angle % 4 = 1 -> 1
                [] angle % 4 = 2 -> 0 [] OTHER -> -1

\* Matrix.RotationY(angle): m[0] = m[10] = cos, m[2] = -sin, m[8] = sin,
\* m[5] = m[15] = 1, zero elsewhere.
RotationY(angle) ==
    <<Cos(angle), 0, 0 - Sin(angle), 0,  0, 1, 0, 0,
      Sin(angle), 0, Cos(angle), 0,  0, 0, 0, 1>>

\* Lines 190-192.
GetReflectionTextureMatrix(t) == t._textureMatrix

\* Lines 194-196.
SetReflectionTextureMatrix(d, value) ==
    /\ lastOp' = Call("setReflectionTextureMatrix", d, value)
    /\ textures' = [textures EXCEPT ![d]._textureMatrix = value]
    /\ UNCHANGED <<cache, loadCalls, immediate, onLoadCalls, onErrorCalls,
                   useDelayedTextureLoading, dirtyCount>>

\* Mutant: the setter stores the angle and leaves the matrix alone.
SetRotationY_AngleOnly(d, value) ==
    /\ lastOp' = Call("rotationY", d, value)
    /\ textures' = [textures EXCEPT ![d]._rotationY = value]
    /\ UNCHANGED <<cache, loadCalls, immediate, onLoadCalls, onErrorCalls,
                   useDelayedTextureLoading, dirtyCount>>

\* Lines 40-43: the angle is stored, then the matrix is replaced by the
\* rotation about Y for the stored angle.
SetRotationY(d, value) ==
    /\ lastOp' = Call("rotationY", d, value)
    /\ textures' = [textures EXCEPT ![d]._rotationY = value,
                                    ![d]._textureMatrix = RotationY(value)]
    /\ UNCHANGED <<cache, loadCalls, immediate, onLoadCalls, onErrorCalls,
                   useDelayedTextureLoading, dirtyCount>>

----------------------------------------------------------------------------
(* clone, lines 227-236; Parse, lines 198-225 *)

\* boundingBoxPosition is a public field (line 10): the application assigns it.
SetBoundingBoxPosition(d, value) ==
    /\ textures' = [textures EXCEPT ![d].boundingBoxPosition = value]
    /\ UNCHANGED <<cache, loadCalls, immediate, onLoadCalls, onErrorCalls,
                   useDelayedTextureLoading, dirtyCount, lastOp>>

\* The fields of CubeTexture carrying a @serialize annotation (lines 35-36):
\* SerializationHelper copies these from the source onto the destination.
CopyAnnotated(dest, rotationY) == [dest EXCEPT !._rotationY = rotationY]

\* Line 234: the constructor is called with five arguments, so prefiltered
\* takes its default.
CloneArgPrefiltered(t) == FALSE

Clone(d) ==
    LET t == textures[d]
        new == Len(textures) + 1
        r == CtorResult(new, t.url, TRUE, t._extensions, t._noMipmap, t._files, FALSE, FALSE, "RGBA", CloneArgPrefiltered(t), NullStr, FALSE)
        copy == [CopyAnnotated(r.texture, t._rotationY)
                     EXCEPT !.origin = [kind |-> "clone", of |-> d, rootUrl |-> <<>>]]
    IN /\ UNCHANGED <<useDelayedTextureLoading, dirtyCount>>
       /\ IF ~t.hasScene
          THEN /\ lastOp' = Call("clone", d, <<d>>)
               /\ UNCHANGED <<textures, cache, loadCalls, immediate, onLoadCalls,
                              onErrorCalls>>
          ELSE /\ lastOp' = Call("clone", d, <<new>>)
               /\ textures' = Append(textures, copy)
               /\ cache' = r.cache
               /\ loadCalls' = r.loadCalls
               /\ immediate' = r.immediate
               /\ onLoadCalls' = Append(onLoadCalls, 0)
               /\ onErrorCalls' = Append(onErrorCalls, 0)

\* The plain record written for texture d: the fields of the record shape,
\* each read from where the texture holds it.
Serialize(d) ==
    LET t == textures[d]
    IN [name |-> t.name, extensions |-> t._extensions,
        boundingBoxPosition |-> t.boundingBoxPosition,
        boundingBoxSize |-> t._boundingBoxSize,
        prefiltered |-> t._prefiltered, rotationY |-> t._rotationY,
        source |-> d]

\* Vector3.FromArray
FromArray(array) == <<array[1], array[2], array[3]>>

Parse(parsedTexture, rootUrl) ==
    LET new == Len(textures) + 1
        prefiltered == IF parsedTexture.prefiltered THEN parsedTexture.prefiltered
                       ELSE FALSE
        r == CtorResult(new, rootUrl \o parsedTexture.name, TRUE, parsedTexture.extensions, FALSE, NullList, FALSE, FALSE, "RGBA", prefiltered, NullStr, FALSE)
        copied == CopyAnnotated(r.texture, parsedTexture.rotationY)
        placed == IF parsedTexture.boundingBoxPosition # NullVec
                  THEN [copied EXCEPT !.boundingBoxPosition =
                                          FromArray(parsedTexture.boundingBoxPosition)]
                  ELSE copied
        hasSize == parsedTexture.boundingBoxSize # NullVec
        sized == IF hasSize
                 THEN [placed EXCEPT !._boundingBoxSize =
                                         FromArray(parsedTexture.boundingBoxSize)]
                 ELSE placed
    IN /\ dirtyCount < MaxDirty
       /\ lastOp' = Call("Parse", new, rootUrl)
       /\ textures' = Append(textures,
              [sized EXCEPT !.origin = [kind |-> "parse", of |-> parsedTexture.source,
                                        rootUrl |-> rootUrl]])
       /\ cache' = r.cache
       /\ loadCalls' = r.loadCalls
       /\ immediate' = r.immediate
       /\ onLoadCalls' = Append(onLoadCalls, 0)
       /\ onErrorCalls' = Append(onErrorCalls, 0)
       /\ dirtyCount' = IF hasSize THEN dirtyCount + 1 ELSE dirtyCount
       /\ UNCHANGED useDelayedTextureLoading

----------------------------------------------------------------------------
(* Engine and scheduler steps *)

\* The texture loses its scene: getScene() returns null from now on.
DetachScene(d) ==
    /\ textures[d].hasScene
    /\ textures' = [textures EXCEPT ![d].hasScene = FALSE]
    /\ UNCHANGED <<cache, loadCalls, immediate, onLoadCalls, onErrorCalls,
                   useDelayedTextureLoading, dirtyCount, lastOp>>

\* The texture is given a scene again.
AttachScene(d) ==
    /\ ~textures[d].hasScene
    /\ textures' = [textures EXCEPT ![d].hasScene = TRUE]
    /\ UNCHANGED <<cache, loadCalls, immediate, onLoadCalls, onErrorCalls,
                   useDelayedTextureLoading, dirtyCount, lastOp>>

\* Number of entries of the sequence q equal to d.
Occurrences(q, d) == Cardinality({i \in 1..Len(q) : q[i] = d})

\* A load ends well: the resource becomes ready, the observers registered on
\* onLoadedObservable are notified and removed, then the loader's onLoad runs.
LoadCompletes(h) ==
    /\ ~cache[h].isReady /\ ~cache[h].failed
    /\ cache' = [cache EXCEPT ![h].isReady = TRUE, ![h].onLoadedObservable = <<>>]
    /\ onLoadCalls' = [d \in 1..Len(onLoadCalls) |->
           onLoadCalls[d] + Occurrences(cache[h].onLoadedObservable, d)
                          + (IF cache[h].onLoad = d THEN 1 ELSE 0)]
    /\ UNCHANGED <<textures, loadCalls, immediate, onErrorCalls,
                   useDelayedTextureLoading, dirtyCount, lastOp>>

\* A load fails: the loader reports to the onError it was given.
LoadFails(h) ==
    /\ ~cache[h].isReady /\ ~cache[h].failed
    /\ cache' = [cache EXCEPT ![h].failed = TRUE]
    /\ onErrorCalls' = [d \in 1..Len(onErrorCalls) |->
           onErrorCalls[d] + (IF cache[h].onError = d THEN 1 ELSE 0)]
    /\ UNCHANGED <<textures, loadCalls, immediate, onLoadCalls,
                   useDelayedTextureLoading, dirtyCount, lastOp>>

\* Tools.SetImmediate: the oldest queued callback runs.
RunImmediate ==
    /\ immediate # <<>>
    /\ immediate' = Tail(immediate)
    /\ onLoadCalls' = [onLoadCalls EXCEPT ![Head(immediate)] = @ + 1]
    /\ UNCHANGED <<textures, cache, loadCalls, onErrorCalls,
                   useDelayedTextureLoading, dirtyCount, lastOp>>

\* The application switches scene.useDelayedTextureLoading.
SetUseDelayedTextureLoading(b) ==
    /\ b # useDelayedTextureLoading
    /\ useDelayedTextureLoading' = b
    /\ UNCHANGED <<textures, cache, loadCalls, immediate, onLoadCalls,
                   onErrorCalls, dirtyCount, lastOp>>

----------------------------------------------------------------------------
(* Specifications *)

Init ==
    /\ textures = <<>>
    /\ cache = <<>>
    /\ loadCalls = <<>>
    /\ immediate = <<>>
    /\ onLoadCalls = <<>>
    /\ onErrorCalls = <<>>
    /\ useDelayedTextureLoading = FALSE
    /\ dirtyCount = 0
    /\ lastOp = [op |-> "none", d |-> 0, arg |-> <<>>, rep |-> FALSE]

Ids == 1..Len(textures)
Handles == 1..Len(cache)

LifeInputs ==
    {<<S_a, FALSE, FALSE, TRUE>>, <<S_a, FALSE, TRUE, TRUE>>,
     <<S_a_dds, FALSE, FALSE, TRUE>>, <<S_a_dds, FALSE, FALSE, FALSE>>,
     <<S_a_dds, FALSE, TRUE, TRUE>>, <<S_a_dds, TRUE, TRUE, TRUE>>}
ResolveUrls == {<<>>, S_a, S_a_dds, S_a_DDS, S_a_env, S_b_png}
ExtensionLists == {NullList, UserExtensions2, UserExtensions6}
FileLists == {NullList, UserFiles2, UserFiles6}
ForcedExtensions == {NullStr, E_dds, E_env, E_png}
Vectors == [1..3 -> {0, 1}]
Angles == 0..3
Mirror == <<-1, 0, 0, 0,  0, 1, 0, 0,  0, 0, 1, 0,  0, 0, 0, 1>>
Shear == <<1, 1, 0, 0,  0, 1, 0, 0,  0, 0, 1, 0,  0, 0, 0, 1>>
Matrices == {Identity, Mirror, Shear, RotationY(1)}
CopyInputs ==
    {<<S_a, UserExtensions2, FALSE, TRUE>>, <<S_a_dds, NullList, TRUE, TRUE>>,
     <<<<>>, NullList, FALSE, FALSE>>}
RootPrefixes == {<<>>, <<"r", "/">>}
One == <<1, 1, 1>>
SceneInputs == {<<S_a_dds, TRUE>>}

\* Loading life cycle: constructions sharing cache keys, delayed loads, load
\* completion and the scheduler.
Next ==
    \/ \E in \in LifeInputs :
          /\ Len(textures) < MaxDesc
          /\ Constructor(in[1], TRUE, NullList, in[2], NullList, in[4], in[4],
                         "RGBA", in[3], NullStr, FALSE)
    \/ \E d \in Ids : DelayLoad(d)
    \/ \E h \in Handles : LoadCompletes(h)
    \/ \E h \in Handles : LoadFails(h)
    \/ RunImmediate
    \/ \E b \in BOOLEAN : SetUseDelayedTextureLoading(b)

Spec == Init /\ [][Next]_vars

\* Face-list resolution: one construction over every combination of root url,
\* suffix list, file list, forced extension and prefiltered request.
NextFiles ==
    \/ \E rootUrl \in ResolveUrls, extensions \in ExtensionLists, files \in FileLists,
          forcedExtension \in ForcedExtensions, prefiltered \in BOOLEAN :
          /\ Len(textures) < MaxResolve
          /\ Constructor(rootUrl, TRUE, extensions, FALSE, files, FALSE, FALSE,
                         "RGBA", prefiltered, forcedExtension, FALSE)
    \/ \E files \in FileLists \ {NullList}, noMipmap \in BOOLEAN :
          /\ Len(textures) < MaxResolve
          /\ CreateFromImages(files, noMipmap)
    \/ \E url \in ResolveUrls \ {<<>>}, forcedExtension \in ForcedExtensions,
          createPolynomials \in BOOLEAN :
          /\ Len(textures) < MaxResolve
          /\ CreateFromPrefilteredData(url, forcedExtension, createPolynomials)

SpecFiles == Init /\ [][NextFiles]_vars

\* Local cubemaps: the boundingBoxSize setter on textures with and without a scene.
NextBox ==
    \/ \E rootUrl \in {<<>>, S_a}, sceneGiven \in BOOLEAN :
          /\ Len(textures) < MaxBox
          /\ Constructor(rootUrl, sceneGiven, NullList, FALSE, NullList, FALSE, FALSE,
                         "RGBA", FALSE, NullStr, FALSE)
    \/ \E d \in Ids, value \in Vectors : SetBoundingBoxSize(d, value)

SpecBox == Init /\ [][NextBox]_vars

\* Reflection transform: the rotationY setter and setReflectionTextureMatrix
\* in any order, on textures with and without a scene.
NextTurn ==
    \/ \E rootUrl \in {<<>>, S_a}, sceneGiven \in BOOLEAN :
          /\ Len(textures) < MaxTurn
          /\ Constructor(rootUrl, sceneGiven, NullList, FALSE, NullList, FALSE, FALSE,
                         "RGBA", FALSE, NullStr, FALSE)
    \/ \E d \in Ids, value \in Angles : SetRotationY(d, value)
    \/ \E d \in Ids, value \in Matrices : SetReflectionTextureMatrix(d, value)

SpecTurn == Init /\ [][NextTurn]_vars

\* Copies: clone and Parse of the serialized record, on textures whose
\* rotation and bounding box the application has set.
NextCopy ==
    \/ \E in \in CopyInputs :
          /\ Len(textures) < MaxCopy
          /\ Constructor(in[1], in[4], in[2], FALSE, NullList, FALSE, FALSE,
                         "RGBA", in[3], NullStr, FALSE)
    \/ \E d \in Ids : SetRotationY(d, 1)
    \/ \E d \in Ids : SetBoundingBoxSize(d, One)
    \/ \E d \in Ids : SetBoundingBoxPosition(d, One)
    \/ \E d \in Ids : Len(textures) < MaxCopy /\ Clone(d)
    \/ \E d \in Ids, rootUrl \in RootPrefixes :
          Len(textures) < MaxCopy /\ Parse(Serialize(d), rootUrl)

SpecCopy == Init /\ [][NextCopy]_vars

\* Scene attachment: delayed loads on textures that lose and regain their
\* scene, and constructions with neither a root url nor a file list.
NextScene ==
    \/ \E in \in SceneInputs :
          /\ Len(textures) < MaxScene
          /\ Constructor(in[1], TRUE, NullList, FALSE, NullList, FALSE, FALSE,
                         "RGBA", in[2], NullStr, FALSE)
    \/ \E sceneGiven \in BOOLEAN, files \in {NullList, UserFiles2} :
          /\ Len(textures) < MaxScene
          /\ Constructor(<<>>, sceneGiven, NullList, FALSE, files, FALSE, FALSE,
                         "RGBA", FALSE, NullStr, FALSE)
    \/ \E d \in Ids : DelayLoad(d)
    \/ \E d \in Ids : DetachScene(d)
    \/ \E d \in Ids : AttachScene(d)
    \/ \E b \in BOOLEAN : SetUseDelayedTextureLoading(b)

SpecScene == Init /\ [][NextScene]_vars

----------------------------------------------------------------------------
(* Claims *)

\* The texture was built from a root url or a file list (line 113 did not return).
NotInert(t) == t.url # <<>> \/ t._files # NullList

\* Loader calls issued so far for the cache key <<url, noMipmap>>.
CallsForKey(key) == {i \in 1..Len(loadCalls) : loadCalls[i].key = key}

\* C1: any two textures created with the same root url and the same noMipmap
\* that both hold a backing resource hold the same backing resource.
C1_SameKeySameResource ==
    \A d, e \in Ids :
        (/\ textures[d].url = textures[e].url
         /\ textures[d]._noMipmap = textures[e]._noMipmap
         /\ textures[d]._texture # 0
         /\ textures[e]._texture # 0)
        => textures[d]._texture = textures[e]._texture

\* C2: at most one loader call is ever issued for a given cache key
\* (root url, noMipmap).
C2_SingleFlight ==
    \A i, j \in 1..Len(loadCalls) :
        loadCalls[i].key = loadCalls[j].key => i = j

\* The source classes of the format resolver, from the resolved extension.
IsLegacySixImage(t) == ~IsDDS(t.extension) /\ ~IsEnv(t.extension)

\* C3: the stored prefiltered flag equals the requested value when the
\* resolved extension is .dds and is false for every other extension.
C3_PrefilteredOnlyForDDS ==
    \A d \in Ids :
        NotInert(textures[d]) =>
            /\ IsDDS(textures[d].extension)
                  => textures[d]._prefiltered = textures[d].args.prefiltered
            /\ ~IsDDS(textures[d].extension) => ~textures[d]._prefiltered

\* C8 as stated: the face list has exactly 6 entries for a legacy six-image
\* source and is empty for a .dds or .env source, whatever suffix list, file
\* list and forced extension were given.
C8_SixOrEmpty ==
    \A d \in Ids :
        NotInert(textures[d]) =>
            /\ IsLegacySixImage(textures[d]) => Len(textures[d]._files) = 6
            /\ ~IsLegacySixImage(textures[d]) => textures[d]._files = <<>>

\* C8 amended: with neither a suffix list nor a file list given, the face list
\* has exactly 6 entries for a legacy six-image source and is empty for a .dds
\* or .env source; a suffix list or file list that is given fixes the length
\* of the face list, whatever the source class.
C8_SixOrEmptyByDefault ==
    \A d \in Ids :
        LET t == textures[d]
        IN NotInert(t) =>
            /\ (t.args.files = NullList /\ t.args.extensions = NullList)
                  => /\ IsLegacySixImage(t) => Len(t._files) = 6
                     /\ ~IsLegacySixImage(t) => t._files = <<>>
            /\ (t.args.files = NullList /\ t.args.extensions # NullList)
                  => Len(t._files) = Len(t.args.extensions)
            /\ t.args.files # NullList => Len(t._files) = Len(t.args.files)

\* C8 witness: six default faces built for a source that a forced extension
\* classifies as legacy six-image.
C8_Witness ==
    \E d \in Ids :
        /\ NotInert(textures[d])
        /\ textures[d].args.files = NullList
        /\ textures[d].args.extensions = NullList
        /\ IsLegacySixImage(textures[d])
        /\ Len(textures[d]._files) = 6
        /\ textures[d].args.forcedExtension # NullStr

\* The six default suffixes, in the order the claim gives them.
C9_DefaultSuffixes ==
    << <<"_", "p", "x", ".", "j", "p", "g">>, <<"_", "p", "y", ".", "j", "p", "g">>,
       <<"_", "p", "z", ".", "j", "p", "g">>, <<"_", "n", "x", ".", "j", "p", "g">>,
       <<"_", "n", "y", ".", "j", "p", "g">>, <<"_", "n", "z", ".", "j", "p", "g">> >>

\* C9: with no file list given, face i is the root url followed by suffix i of
\* the user's suffix list, or of the six defaults for a legacy six-image source
\* given no suffix list; a file list that is given is stored verbatim.
C9_FacesFollowSuffixes ==
    \A d \in Ids :
        LET t == textures[d]
            suffixes == IF t.args.extensions # NullList THEN t.args.extensions
                        ELSE IF IsLegacySixImage(t) THEN C9_DefaultSuffixes
                        ELSE <<>>
        IN NotInert(t) =>
            /\ t.args.files # NullList => t._files = t.args.files
            /\ t.args.files = NullList
                  => /\ Len(t._files) = Len(suffixes)
                     /\ \A i \in 1..Len(suffixes) : t._files[i] = t.url \o suffixes[i]

\* C9 witness: a face list built from a user's suffix list of a dotted root url.
C9_Witness ==
    \E d \in Ids :
        /\ textures[d].args.files = NullList
        /\ textures[d].args.extensions = UserExtensions2
        /\ textures[d].url = S_b_png
        /\ textures[d]._files = << S_b_png \o <<"_", "r">>, S_b_png \o <<"_", "l">> >>

\* A call op on texture d is made in this step.
CalledNow(op, d) == lastOp' # lastOp /\ lastOp'.op = op /\ lastOp'.d = d

\* C4: a construction from a root url or file list that misses the cache while
\* scene.useDelayedTextureLoading is on issues no loader call, leaves _texture
\* absent and sets delayLoadState to NOTLOADED.
C4_DelayedMissDefers ==
    [][LET d == Len(textures) + 1
       IN Len(textures') = d =>
            LET t == textures'[d]
            IN (/\ NotInert(t)
                /\ GetFromCache(t.url, t._noMipmap) = 0
                /\ useDelayedTextureLoading)
               => /\ loadCalls' = loadCalls
                  /\ cache' = cache
                  /\ t._texture = 0
                  /\ t.delayLoadState = "NOTLOADED"]_vars

\* C4 witness: with another key already cached, a construction under delayed
\* loading has just left its texture pending, without a loader call of its own.
C4_Witness ==
    \E d \in Ids :
        /\ lastOp.op = "constructor" /\ lastOp.d = d
        /\ useDelayedTextureLoading
        /\ NotInert(textures[d])
        /\ textures[d].delayLoadState = "NOTLOADED"
        /\ textures[d]._texture = 0
        /\ cache # <<>>
        /\ \A i \in 1..Len(loadCalls) : loadCalls[i].by # d

\* C5: the first delayLoad() of a pending texture with a scene sets the state
\* to LOADED and issues exactly one loader call, or none when the cache holds
\* an entry for its key; a delayLoad() of a LOADED texture issues no loader
\* call and changes neither the state nor the backing resource.
C5_DelayLoadOnce ==
    [][\A d \in Ids :
          LET t == textures[d]
              cached == GetFromCache(t.url, t._noMipmap)
          IN /\ (t.delayLoadState = "NOTLOADED" /\ t.hasScene /\ CalledNow("delayLoad", d))
                  => /\ textures'[d].delayLoadState = "LOADED"
                     /\ cached = 0
                          => /\ Len(loadCalls') = Len(loadCalls) + 1
                             /\ loadCalls'[Len(loadCalls')].by = d
                             /\ textures'[d]._texture = Len(cache')
                     /\ cached # 0
                          => /\ loadCalls' = loadCalls
                             /\ textures'[d]._texture = cached
             /\ (t.delayLoadState = "LOADED" /\ lastOp'.op = "delayLoad" /\ lastOp'.d = d)
                  => /\ textures'[d] = t
                     /\ loadCalls' = loadCalls
             /\ t.delayLoadState = "LOADED" => textures'[d].delayLoadState = "LOADED"]_vars

\* C5 witness: two pending textures of one key were both materialized, the
\* first by the only loader call, the second from the cache, and delayLoad()
\* was then called again.
C5_Witness ==
    \E d, e \in Ids :
        /\ d # e
        /\ textures[d].delayLoadState = "LOADED"
        /\ textures[e].delayLoadState = "LOADED"
        /\ textures[d]._texture = textures[e]._texture
        /\ Len(loadCalls) = 1
        /\ loadCalls[1].by = d /\ loadCalls[1].from = "delayLoad"
        /\ lastOp.op = "delayLoad" /\ lastOp.rep

\* C6: with delayed loading off, a construction from a root url or file list
\* issues exactly one loader call when the cache has no entry for
\* (rootUrl, noMipmap) and none when it has one; no construction issues more
\* than one.
C6_CtorLoadsOncePerMiss ==
    [][LET d == Len(textures) + 1
       IN Len(textures') = d =>
            LET t == textures'[d]
                cached == GetFromCache(t.url, t._noMipmap)
            IN /\ Len(loadCalls') <= Len(loadCalls) + 1
               /\ (NotInert(t) /\ ~useDelayedTextureLoading /\ cached = 0)
                    => /\ Len(loadCalls') = Len(loadCalls) + 1
                       /\ loadCalls'[Len(loadCalls')].by = d
                       /\ loadCalls'[Len(loadCalls')].from = "constructor"
                       /\ t._texture = Len(cache')
               /\ (NotInert(t) /\ ~useDelayedTextureLoading /\ cached # 0)
                    => /\ loadCalls' = loadCalls
                       /\ t._texture = cached]_vars

\* C6 witness: a construction that loaded, then a construction of the same key
\* that took the cached resource without a loader call.
C6_Witness ==
    \E d, e \in Ids :
        /\ d # e
        /\ ~useDelayedTextureLoading
        /\ Len(loadCalls) = 1
        /\ loadCalls[1].by = d /\ loadCalls[1].from = "constructor"
        /\ lastOp.op = "constructor" /\ lastOp.d = e
        /\ textures[e]._texture = textures[d]._texture
        /\ textures[e]._texture # 0

\* C7: on a cache hit with an onLoad callback, onLoad has not run when the
\* constructor returns; for a ready resource it is queued with
\* Tools.SetImmediate and runs exactly once, later; for a resource not yet
\* ready it is registered on the resource and runs exactly once, when the
\* resource becomes ready.
C7_HitCallbackDeferredOnce ==
    /\ [][LET d == Len(textures) + 1
          IN Len(textures') = d =>
               LET t == textures'[d]
                   cached == GetFromCache(t.url, t._noMipmap)
               IN (NotInert(t) /\ t.onLoad /\ cached # 0)
                  => /\ onLoadCalls'[d] = 0
                     /\ cache[cached].isReady
                          => /\ immediate' = Append(immediate, d)
                             /\ cache' = cache
                             /\ t.ctorPath = "hitQueued"
                     /\ ~cache[cached].isReady
                          => /\ immediate' = immediate
                             /\ cache'[cached].onLoadedObservable =
                                    Append(cache[cached].onLoadedObservable, d)
                             /\ t.ctorPath = "hitRegistered"]_vars
    /\ [](\A d \in Ids :
            LET t == textures[d]
            IN /\ t.ctorPath = "hitQueued"
                    => onLoadCalls[d] + Occurrences(immediate, d) = 1
               /\ t.ctorPath = "hitRegistered"
                    => LET r == cache[t._texture]
                       IN /\ r.isReady
                               => /\ onLoadCalls[d] = 1
                                  /\ Occurrences(r.onLoadedObservable, d) = 0
                          /\ ~r.isReady
                               => /\ onLoadCalls[d] = 0
                                  /\ Occurrences(r.onLoadedObservable, d) = 1)

\* C7 witness: an onLoad registered on a resource still loading has run once,
\* now that the resource is ready.
C7_Witness ==
    \E d \in Ids :
        /\ textures[d].ctorPath = "hitRegistered"
        /\ cache[textures[d]._texture].isReady
        /\ onLoadCalls[d] = 1

\* C10: a set of boundingBoxSize to the stored value changes nothing and sends
\* no signal; a set to another value stores it and calls
\* markAllMaterialsAsDirty exactly once when a scene is attached; two sets in a
\* row to equal values call it at most once.
C10_BoundingBoxSizeSignals ==
    [][lastOp'.op = "boundingBoxSize" =>
          LET d == lastOp'.d
              value == lastOp'.arg
              current == textures[d]._boundingBoxSize
          IN /\ current = value
                  => /\ textures' = textures
                     /\ dirtyCount' = dirtyCount
             /\ current # value
                  => /\ textures' = [textures EXCEPT ![d]._boundingBoxSize = value]
                     /\ dirtyCount' = dirtyCount + (IF textures[d].hasScene THEN 1 ELSE 0)
             /\ lastOp'.rep => dirtyCount' = dirtyCount]_vars

\* C10 witness: boundingBoxSize was set twice in a row to one value on a
\* texture with a scene, and one signal was sent.
C10_Witness ==
    \E d \in Ids :
        /\ lastOp.op = "boundingBoxSize" /\ lastOp.d = d /\ lastOp.rep
        /\ textures[d].hasScene
        /\ textures[d]._boundingBoxSize = lastOp.arg
        /\ dirtyCount = 1

\* The rotation about Y by a number of quarter turns, entry by entry.
C11_QuarterTurn(angle) ==
    CASE angle = 0 -> <<1, 0, 0, 0,  0, 1, 0, 0,  0, 0, 1, 0,  0, 0, 0, 1>>
      [] angle = 1 -> <<0, 0, -1, 0,  0, 1, 0, 0,  1, 0, 0, 0,  0, 0, 0, 1>>
      [] angle = 2 -> <<-1, 0, 0, 0,  0, 1, 0, 0,  0, 0, -1, 0,  0, 0, 0, 1>>
      [] OTHER     -> <<0, 0, 1, 0,  0, 1, 0, 0,  -1, 0, 0, 0,  0, 0, 0, 1>>

\* C11: after rotationY is set to an angle, getReflectionTextureMatrix()
\* returns the pure rotation about Y for that angle, whatever was set before;
\* after a later setReflectionTextureMatrix(M) it returns exactly M. The
\* setter that ran last on a texture determines its transform.
C11_LastSetterWins ==
    \A d \in Ids :
        lastOp.d = d =>
            /\ lastOp.op = "rotationY" =>
                   /\ GetReflectionTextureMatrix(textures[d]) = C11_QuarterTurn(lastOp.arg)
                   /\ textures[d]._rotationY = lastOp.arg
            /\ lastOp.op = "setReflectionTextureMatrix" =>
                   GetReflectionTextureMatrix(textures[d]) = lastOp.arg

\* A matrix was set after a rotation: the angle is still stored, the matrix
\* returned is the one set and not the rotation for the stored angle.
C11_Witness ==
    \E d \in Ids :
        /\ lastOp.op = "setReflectionTextureMatrix" /\ lastOp.d = d
        /\ textures[d]._rotationY = 2
        /\ lastOp.arg = Shear
        /\ GetReflectionTextureMatrix(textures[d]) # C11_QuarterTurn(2)

\* C12: clone() of a texture with a scene returns a new texture with the
\* same root url, the same prefiltered flag and the same face list.
C12_CloneKeepsIdentity ==
    \A e \in Ids :
        textures[e].origin.kind = "clone" =>
            LET t == textures[textures[e].origin.of]
            IN /\ textures[e].url = t.url
               /\ textures[e]._prefiltered = t._prefiltered
               /\ textures[e]._files = t._files

\* C13: parsing the serialized record of a texture yields a texture with the
\* same root url, the same suffix list, the same bounding-box center and
\* extent and the same rotation angle as the texture had when serialized.
C13_RoundTrip ==
    [][\A e \in 1..Len(textures') :
          (CalledNow("Parse", e) /\ textures'[e].origin.rootUrl = <<>>) =>
              LET t == textures[textures'[e].origin.of]
              IN /\ textures'[e].url = t.url
                 /\ textures'[e].args.extensions = t.args.extensions
                 /\ textures'[e].boundingBoxPosition = t.boundingBoxPosition
                 /\ textures'[e]._boundingBoxSize = t._boundingBoxSize
                 /\ textures'[e]._rotationY = t._rotationY]_vars

\* C14: a load issued by delayLoad() calls the loader that a construction
\* with immediate loading and the same root url, forced extension and
\* requested prefiltered flag calls; a texture requested as prefiltered
\* whose extension is not .dds is loaded through createCubeTexture.
C14_DelayLoadSameLoader ==
    \A i \in 1..Len(loadCalls) :
        loadCalls[i].from = "delayLoad" =>
            LET t == textures[loadCalls[i].by]
            IN loadCalls[i].fn =
                   IF CtorUsesPrefilteredLoader(t.args.prefiltered, IsDDS(t.extension))
                   THEN "createPrefilteredCubeTexture"
                   ELSE "createCubeTexture"

\* C15: for every texture constructed with a root url or a file list,
\* delayLoadState = LOADED implies that the texture holds a backing resource.
C15_LoadedHasResource ==
    \A d \in Ids :
        (NotInert(textures[d]) /\ textures[d].delayLoadState = "LOADED")
            => textures[d]._texture # 0

\* Two textures were materialized by delayLoad(), one through a loader call
\* and one from the cache.
C15_Witness ==
    \E d, e \in Ids :
        /\ textures[d].delayLoadState = "LOADED" /\ textures[d]._texture # 0
        /\ textures[e].delayLoadState = "LOADED" /\ textures[e]._texture # 0
        /\ \E i \in 1..Len(loadCalls) :
               loadCalls[i].by = d /\ loadCalls[i].from = "delayLoad"
        /\ \A i \in 1..Len(loadCalls) : loadCalls[i].by # e

\* The fields of a texture that a load or a cache lookup writes.
LoadFields(t) == <<t._texture, t.delayLoadState, t._files>>

\* C16: delayLoad() on a pending texture without a scene changes nothing:
\* the state stays NOTLOADED, no resource is stored, no loader is called;
\* delayLoad() on a pending texture with a scene materializes it, a call
\* without a scene having been made before or not.
C16_NoSceneNoLoad ==
    [][\A d \in Ids :
          (CalledNow("delayLoad", d) /\ textures[d].delayLoadState = "NOTLOADED") =>
              IF textures[d].hasScene
              THEN /\ textures'[d].delayLoadState = "LOADED"
                   /\ textures'[d]._texture # 0
              ELSE /\ LoadFields(textures'[d]) = LoadFields(textures[d])
                   /\ textures'[d]._texture = 0
                   /\ loadCalls' = loadCalls
                   /\ cache' = cache]_vars

\* A texture whose delayLoad() was once called without a scene has been
\* materialized by a later call with a scene.
C16_Witness ==
    \E d \in Ids :
        /\ textures[d].delaySkipped
        /\ textures[d].hasScene
        /\ textures[d].delayLoadState = "LOADED"
        /\ textures[d]._texture # 0
        /\ lastOp.op = "delayLoad" /\ lastOp.d = d

\* The texture was constructed with neither a root url nor a file list.
C17_NoSource(t) == t.url = <<>> /\ t.args.files = NullList

\* C17: a construction with neither a root url nor a file list stores no
\* cache lookup, calls no loader, sets no face list and does not set
\* delayLoadState to NOTLOADED; a later delayLoad() on it is a no-op.
C17_InertConstruction ==
    [][\A d \in 1..Len(textures') :
          /\ (CalledNow("constructor", d) /\ C17_NoSource(textures'[d])) =>
                 /\ textures'[d]._texture = 0
                 /\ textures'[d]._files = NullList
                 /\ textures'[d].delayLoadState # "NOTLOADED"
                 /\ loadCalls' = loadCalls
                 /\ cache' = cache
                 /\ immediate' = immediate
          /\ (d \in Ids /\ CalledNow("delayLoad", d) /\ C17_NoSource(textures[d])) =>
                 /\ textures' = textures
                 /\ loadCalls' = loadCalls
                 /\ cache' = cache]_vars

\* delayLoad() was called on a texture built with no source, with a scene,
\* while the cache held a resource under the key ("", noMipmap = false)
\* that a lookup would have returned.
C17_Witness ==
    \E d \in Ids :
        /\ C17_NoSource(textures[d])
        /\ textures[d].hasScene
        /\ lastOp.op = "delayLoad" /\ lastOp.d = d
        /\ GetFromCache(<<>>, FALSE) # 0
        /\ textures[d]._texture = 0
        /\ textures[d].delayLoadState = "NONE"

\* The cache index and the scheduler hold no callback of texture d.
NoCallbackHeld(d) ==
    /\ \A h \in Handles :
           /\ cache[h].onLoad # d
           /\ cache[h].onError # d
           /\ Occurrences(cache[h].onLoadedObservable, d) = 0
    /\ Occurrences(immediate, d) = 0

C19_HitNeverPending ==
    /\ [][\A d \in 1..Len(textures') :
             /\ (/\ CalledNow("constructor", d)
                 /\ useDelayedTextureLoading
                 /\ GetFromCache(textures'[d].url, textures'[d]._noMipmap) # 0) =>
                    /\ textures'[d]._texture =
                           GetFromCache(textures'[d].url, textures'[d]._noMipmap)
                    /\ textures'[d].delayLoadState = "NONE"
                    /\ loadCalls' = loadCalls
             /\ (/\ d \in Ids
                 /\ CalledNow("delayLoad", d)
                 /\ textures[d].delayLoadState # "NOTLOADED") =>
                    /\ textures' = textures
                    /\ loadCalls' = loadCalls
                    /\ cache' = cache]_vars
    /\ [](\A d \in Ids :
             textures[d].delayLoadState = "NOTLOADED" => textures[d]._texture = 0)

\* A construction made while delayed loading was enabled has just taken its
\* resource from the cache: the texture holds it and is not pending.
C19_Witness ==
    \E d \in Ids :
        /\ lastOp.op = "constructor" /\ lastOp.d = d
        /\ lastOp.arg = <<TRUE>>
        /\ textures[d].ctorPath \in {"hit", "hitQueued", "hitRegistered"}
        /\ textures[d]._texture # 0
        /\ textures[d].delayLoadState = "NONE"

\* C20: when a construction hits the cache its onError is neither registered
\* nor invoked, whatever the load's later outcome; a texture receives a
\* load-failure report only if its construction issued, with delayed loading
\* disabled, the first load of its cache key.
C20_OnlyFirstRequesterHearsFailure ==
    \A d \in Ids :
        /\ textures[d].ctorPath \in {"hit", "hitQueued", "hitRegistered"} =>
               /\ onErrorCalls[d] = 0
               /\ \A h \in Handles : cache[h].onError # d
        /\ onErrorCalls[d] > 0 =>
               \E i \in 1..Len(loadCalls) :
                   /\ loadCalls[i].by = d
                   /\ loadCalls[i].from = "constructor"
                   /\ \A j \in CallsForKey(loadCalls[i].key) : i <= j

============================================================================
